---------------------------- MODULE Spec2Model ----------------------------
(***************************************************************************)
(* CoinCast backend: the cached, retrying history fetch (backend/data.py), *)
(* the predict request handler (backend/main.py) and the forecast          *)
(* dispatch with backtest-based selection (backend/modeling.py).           *)
(*                                                                         *)
(* Time is counted in ticks of half a second, the initial backoff of the   *)
(* retry loop, so that every delay of the code is a whole number of ticks. *)
(* A backtest score (a float MAE) is counted in units of eps = 1e-6, the   *)
(* constant the ensemble adds to it, so that 1/(score + eps) is the        *)
(* rational 1/(score + 1) in units of 1/eps; +infinity is the value Inf.   *)
(* A series is daily and gap-free (asfreq("D")), so it is given by its     *)
(* last date and its length; a forecast frame's index is kept as the       *)
(* explicit sequence of dates that pd.date_range builds.                   *)
(* A 200 response is taken to carry a well-formed "prices" payload, and    *)
(* the statsmodels fits are taken to return `horizon` predictions.         *)
(* The clock moves with the events that take time: the gap before a        *)
(* request arrives and the backoff sleeps; a response is timed at the      *)
(* clock of the step that receives it.                                     *)
(***************************************************************************)
EXTENDS Integers, Sequences, FiniteSets, TLC

\* ------------------------------------------------------------ constants

\* ticks per second: one tick is the initial backoff of 0.5 s
TicksPerSecond == 2
TTL_SECONDS == 300
TTL == TTL_SECONDS * TicksPerSecond
\* backoff = 0.5 (seconds), in ticks
InitialBackoff == 1
\* for _ in range(4)
MaxAttempts == 4
\* series.tail(720)
TailWindow == 720
\* rolling_backtest(..., step=7)
BacktestStep == 7
\* min(300, max(120, len(s)//2))
StartDaysMax == 300
StartDaysMin == 120
\* np.inf, the score of a series with no backtest split
Inf == -1

COINS == {"bitcoin", "ethereum", "binancecoin", "ripple", "cardano", "solana",
          "dogecoin", "polkadot", "litecoin", "chainlink"}
Horizons == {7, 14, 30, 60}
Modes == {"holt", "arima", "best", "ensemble"}

\* ---------------------------------------------------------------- bounds

\* requests issued in one behaviour, one handler at a time
MaxCalls == 2
\* requests issued in one behaviour when requests overlap
MaxOverlapCalls == 3
\* attempts of one fetch that may get a retryable response, when requests overlap
MaxOverlapRetries == 1
\* largest finite backtest score drawn, in units of eps
MaxScore == 2

Procs == {"h1", "h2"}
ScoreInputs == 0 .. MaxScore

\* What the clients and the upstream do, one handler at a time: every request
\* over the listed parameters, every response, a retryable response on any
\* attempt.
SeqEnv ==
    [requests |-> [coin_id : {"bitcoin", "ethereum", "shibacoin"}, horizon : {7, 10},
                   days : {365}, model : {"best", "ensemble", "prophet"}],
     gaps |-> {0, TTL - 1},
     calls |-> MaxCalls,
     statuses |-> {200, 404, 429, 500},
     lens |-> {91, 366},
     retries |-> MaxAttempts]

\* The same with overlapping requests, over fewer inputs.
OverlapEnv ==
    [requests |-> [coin_id : {"bitcoin", "ethereum", "shibacoin"}, horizon : {7},
                   days : {365}, model : {"best"}],
     gaps |-> {0, TTL - 1},
     calls |-> MaxOverlapCalls,
     statuses |-> {200, 404, 429},
     lens |-> {366},
     retries |-> MaxOverlapRetries]

\* inputs of the forecast specification
FLens == {91, 127, 128, 134, 135, 366, 720, 721, 800}
FLastDates == {1000}

Min(a, b) == IF a < b THEN a ELSE b
Max(a, b) == IF a > b THEN a ELSE b

\* ------------------------------------------------------------- modeling.py

\* series.tail(n): the last n observations; the last date is kept
tail_head(s, n) == [s EXCEPT !.last = s.last - (s.len - Min(s.len, n)), !.len = Min(s.len, n)]
tail(s, n) == [s EXCEPT !.len = Min(s.len, n)]

\* pd.date_range(y.index[-1] + pd.Timedelta(days=1), periods=horizon, freq="D")
DateRangeFromLast(last, horizon) == [k \in 1 .. horizon |-> last + k - 1]
DateRange(last, horizon) == [k \in 1 .. horizon |-> last + k]

\* holt_forecast / arima_logprice_forecast: one fit on y, a frame indexed by idx
holt_forecast(s, horizon) == [index |-> DateRange(s.last, horizon), by |-> "holt"]
arima_logprice_forecast(s, horizon) == [index |-> DateRange(s.last, horizon), by |-> "arima"]

\* range(start_days, len(series) - horizon, step)
Cuts(len, horizon, start_days) ==
    {c \in start_days .. (len - horizon - 1) : (c - start_days) % BacktestStep = 0}

StartDays(len) == Min(StartDaysMax, Max(StartDaysMin, len \div 2))

\* rolling_backtest: the mean of the splits' errors (mean, a value the fits
\* decide), or np.inf when there is no split
rolling_backtest(s, horizon, start_days, mean) ==
    IF Cuts(s.len, horizon, start_days) = {} THEN Inf ELSE mean

\* float <: +inf is above every finite score and not below itself
ScoreLess(a, b) == a # Inf /\ (b = Inf \/ a < b)

\* best_model: "arima" only on a strictly lower score
best_model_le(s0, horizon, meanH, meanA) ==
    LET s == tail(s0, TailWindow)
        mae_holt == rolling_backtest(s, horizon, StartDays(s.len), meanH)
        mae_arima == rolling_backtest(s, horizon, StartDays(s.len), meanA)
    IN  IF ~ScoreLess(mae_holt, mae_arima)
        THEN [model |-> "arima", holt |-> mae_holt, arima |-> mae_arima]
        ELSE [model |-> "holt", holt |-> mae_holt, arima |-> mae_arima]
best_model(s0, horizon, meanH, meanA) ==
    LET s == tail(s0, TailWindow)
        mae_holt == rolling_backtest(s, horizon, StartDays(s.len), meanH)
        mae_arima == rolling_backtest(s, horizon, StartDays(s.len), meanA)
    IN  IF ScoreLess(mae_arima, mae_holt)
        THEN [model |-> "arima", holt |-> mae_holt, arima |-> mae_arima]
        ELSE [model |-> "holt", holt |-> mae_holt, arima |-> mae_arima]

\* 1.0 / (mae + eps) as a fraction <<numerator, denominator>>; 1/inf is 0.0
InvScore(mae) == IF mae = Inf THEN <<0, 1>> ELSE <<1, mae + 1>>

\* ensemble_forecast: raises ZeroDivisionError at w_h /= w_sum when w_sum is 0.0
ensemble_forecast(s0, horizon, meanH, meanA) ==
    LET s == tail(s0, TailWindow)
        mae_holt == rolling_backtest(s, horizon, StartDays(s.len), meanH)
        mae_arima == rolling_backtest(s, horizon, StartDays(s.len), meanA)
        f_h == holt_forecast(s, horizon)
        f_a == arima_logprice_forecast(s, horizon)
        w_h == InvScore(mae_holt)
        w_a == InvScore(mae_arima)
        \* w_sum = w_h + w_a, as a fraction
        w_sum == <<w_h[1] * w_a[2] + w_a[1] * w_h[2], w_h[2] * w_a[2]>>
    IN  IF w_sum[1] = 0
        THEN [raised |-> "ZeroDivisionError"]
        ELSE [raised |-> "",
              fc |-> [index |-> f_h.index, by |-> "ensemble"],
              info |-> [model |-> "ensemble",
                        \* w_h / w_sum and w_a / w_sum
                        holt |-> <<w_h[1] * w_sum[2], w_h[2] * w_sum[1]>>,
                        arima |-> <<w_a[1] * w_sum[2], w_a[2] * w_sum[1]>>,
                        mae_holt |-> mae_holt, mae_arima |-> mae_arima]]

\* forecast: the dispatch on mode
forecast(series, horizon, mode, meanH, meanA) ==
    LET s == tail(series, TailWindow)
    IN  CASE mode = "holt" ->
               [raised |-> "", fc |-> holt_forecast(s, horizon), info |-> [model |-> "holt"]]
          [] mode = "arima" ->
               [raised |-> "", fc |-> arima_logprice_forecast(s, horizon),
                info |-> [model |-> "arima"]]
          [] mode = "ensemble" -> ensemble_forecast(s, horizon, meanH, meanA)
          [] OTHER ->
               LET b == best_model(s, horizon, meanH, meanA)
               IN  [raised |-> "",
                    fc |-> IF b.model = "holt" THEN holt_forecast(s, horizon)
                           ELSE arima_logprice_forecast(s, horizon),
                    info |-> b]

\* the model fits one forecast call performs: two per backtest split, then
\* the fits of the frame itself
Fits(series, horizon, mode) ==
    LET s == tail(series, TailWindow)
        n == Cardinality(Cuts(s.len, horizon, StartDays(s.len)))
    IN  CASE mode = "holt" -> 1
          [] mode = "arima" -> 1
          [] mode = "ensemble" -> 2 * n + 2
          [] OTHER -> 2 * n + 1


\* ------------------------------------------------------------------ state

VARIABLES
    clock,      \* time.time(), in ticks
    cache,      \* _CACHE: a dict from (coin_id, days) to (ts, series)
    storedAt,   \* history: for each key of _CACHE, the clock when it was last written
    served,     \* requests each handler has taken so far
    pc,         \* where each handler is: idle, get, close, sleep, done, failed, rejected
    req,        \* predict's parameters: coin_id, horizon, days, model
    now,        \* fetch_history's local `now`
    attempts,   \* upstream HTTP attempts of the handler's fetch
    backoff,    \* _fetch_history_nocache's local `backoff`
    r,          \* the last response: status, arrival time, length of its series
    wake,       \* when the running asyncio.sleep may end
    statuses,   \* history: the statuses the running fetch received, in order
    delays,     \* history: the backoff delays the running fetch began, in order
    result,     \* how the request ended: the error raised or "ok", the status the
                \* error carries, whether the cache answered, the model fits done
    ret,        \* the series fetch_history returned
    fpc, fin, fout   \* a direct forecast call: position, arguments, return value

vars == <<clock, cache, storedAt, served, pc, req, now, attempts, backoff, r,
          wake, statuses, delays, result, ret, fpc, fin, fout>>

svars == <<clock, cache, storedAt, served, pc, req, now, attempts, backoff, r,
           wake, statuses, delays, result, ret>>
fvars == <<fpc, fin, fout>>

NoSeries == [coin |-> "", days |-> 0, at |-> 0, last |-> 0, len |-> 0]
NoReq == [coin_id |-> "", horizon |-> 0, days |-> 0, model |-> ""]
NoResponse == [status |-> 0, at |-> 0, len |-> 0]
NoResult == [kind |-> "", status |-> 0, hit |-> FALSE, fits |-> 0]
NoCall == [series |-> NoSeries, horizon |-> 0, mode |-> "", meanH |-> 0, meanA |-> 0]

Terminal == {"idle", "done", "failed", "rejected"}
InFlight == {"get", "close", "sleep"}

TicksPerDay == 86400 * TicksPerSecond

ServiceInit ==
    /\ clock = 0
    /\ cache = << >>
    /\ storedAt = << >>
    /\ served = [p \in Procs |-> 0]
    /\ pc = [p \in Procs |-> "idle"]
    /\ req = [p \in Procs |-> NoReq]
    /\ now = [p \in Procs |-> 0]
    /\ attempts = [p \in Procs |-> 0]
    /\ backoff = [p \in Procs |-> 0]
    /\ r = [p \in Procs |-> NoResponse]
    /\ wake = [p \in Procs |-> 0]
    /\ statuses = [p \in Procs |-> << >>]
    /\ delays = [p \in Procs |-> << >>]
    /\ result = [p \in Procs |-> NoResult]
    /\ ret = [p \in Procs |-> NoSeries]

Init ==
    /\ ServiceInit
    /\ fpc = "none"
    /\ fin = NoCall
    /\ fout = [raised |-> ""]

\* ----------------------------------------------------------------- data.py

\* r.status_code == 429 or 500 <= r.status_code < 600
Retryable_4xx(s) == s = 429 \/ (400 <= s /\ s < 600)
Retryable(s) == s = 429 \/ (500 <= s /\ s < 600)

\* backoff *= 2
NextBackoff_linear(b) == b + InitialBackoff
NextBackoff(b) == b * 2

\* key = (coin_id, days)
Key(rq) == <<rq.coin_id, rq.days>>

\* key in _CACHE and now - ts < TTL_SECONDS
Live(c, key, t) == key \in DOMAIN c /\ t - c[key].ts < TTL

\* _CACHE[key] = (now, series)
Put(c, key, e) == [k \in DOMAIN c \cup {key} |-> IF k = key THEN e ELSE c[k]]

\* the timestamp fetch_history stores: `now`, taken before the fetch is awaited
StoreTimestamp_atStore(p) == clock
StoreTimestamp(p) == now[p]

\* ------------------------------------------------------------------ main.py

\* predict's three checks, in order; "" when the request passes them
Validate_noHorizon(rq) ==
    IF rq.coin_id \notin COINS THEN "400 Unsupported coin_id"
    ELSE IF rq.model \notin Modes THEN "400 model must be one of"
    ELSE ""
Validate(rq) ==
    IF rq.coin_id \notin COINS THEN "400 Unsupported coin_id"
    ELSE IF rq.horizon \notin Horizons THEN "400 horizon must be"
    ELSE IF rq.model \notin Modes THEN "400 model must be one of"
    ELSE ""

\* the request is over: the locals of fetch_history and _fetch_history_nocache
\* are gone
DropLocals(p) ==
    /\ now' = [now EXCEPT ![p] = 0]
    /\ backoff' = [backoff EXCEPT ![p] = 0]
    /\ r' = [r EXCEPT ![p] = NoResponse]
    /\ wake' = [wake EXCEPT ![p] = 0]
    /\ attempts' = [attempts EXCEPT ![p] = 0]
    /\ statuses' = [statuses EXCEPT ![p] = << >>]
    /\ delays' = [delays EXCEPT ![p] = << >>]

\* predict after fetch_history returned `series`: forecast, then the response
\* (or the error forecast raised), whatever the backtests score
Finish(p, rq, series, wasHit) ==
    \E raised \in {forecast(series, rq.horizon, rq.model, meanH, meanA).raised :
                      meanH \in ScoreInputs, meanA \in ScoreInputs} :
        /\ pc' = [pc EXCEPT ![p] = IF raised = "" THEN "done" ELSE "failed"]
        /\ result' = [result EXCEPT ![p] =
                        [kind |-> IF raised = "" THEN "ok" ELSE raised,
                         status |-> 0, hit |-> wasHit,
                         fits |-> Fits(series, rq.horizon, rq.model)]]
        /\ ret' = [ret EXCEPT ![p] = series]

\* the fetch raised: the exception leaves fetch_history before the store and
\* predict before forecast
FailFetch_evict(p, err, status) ==
    /\ pc' = [pc EXCEPT ![p] = "failed"]
    /\ result' = [result EXCEPT ![p] =
                    [kind |-> err, status |-> status, hit |-> FALSE, fits |-> 0]]
    /\ cache' = [k \in DOMAIN cache \ {Key(req[p])} |-> cache[k]]
    /\ UNCHANGED <<storedAt, ret>>
FailFetch(p, err, status) ==
    /\ pc' = [pc EXCEPT ![p] = "failed"]
    /\ result' = [result EXCEPT ![p] =
                    [kind |-> err, status |-> status, hit |-> FALSE, fits |-> 0]]
    /\ UNCHANGED <<cache, storedAt, ret>>

RECURSIVE Sum(_, _)
Sum(f, S) == IF S = {} THEN 0 ELSE LET x == CHOOSE y \in S : TRUE IN f[x] + Sum(f, S \ {x})

\* requests issued so far
Issued == Sum(served, Procs)

\* GET /api/predict up to its first suspension: validation, the cache lookup,
\* and on a miss the first upstream attempt; on a hit the whole handler
Predict(p, env) ==
    /\ pc[p] \in Terminal
    /\ Issued < env.calls
    /\ \E gap \in env.gaps, rq \in env.requests :
        LET t == clock + gap
        IN  \* a fetch in flight is over long before TTL - 1 tick: four attempts
            \* of at most 20 s (timeout=20) and 7.5 s of backoff
            /\ gap > 0 => \A q \in Procs : pc[q] \in Terminal
            /\ clock' = t
            /\ served' = [served EXCEPT ![p] = @ + 1]
            /\ req' = [req EXCEPT ![p] = rq]
            /\ IF Validate(rq) # ""
               THEN /\ pc' = [pc EXCEPT ![p] = "rejected"]
                    /\ result' = [result EXCEPT ![p] =
                                    [kind |-> Validate(rq), status |-> 400,
                                     hit |-> FALSE, fits |-> 0]]
                    /\ ret' = [ret EXCEPT ![p] = NoSeries]
                    /\ DropLocals(p)
                    /\ UNCHANGED <<cache, storedAt>>
               ELSE IF Live(cache, Key(rq), t)
               THEN /\ Finish(p, rq, cache[Key(rq)].series, TRUE)
                    /\ DropLocals(p)
                    /\ UNCHANGED <<cache, storedAt>>
               ELSE /\ pc' = [pc EXCEPT ![p] = "get"]
                    /\ now' = [now EXCEPT ![p] = t]
                    /\ result' = [result EXCEPT ![p] = NoResult]
                    /\ attempts' = [attempts EXCEPT ![p] = 1]
                    /\ backoff' = [backoff EXCEPT ![p] = InitialBackoff]
                    /\ ret' = [ret EXCEPT ![p] = NoSeries]
                    /\ UNCHANGED <<cache, storedAt, r, wake, statuses, delays>>
    /\ UNCHANGED fvars

\* r = await client.get(...): the response arrives
Respond(p, env) ==
    /\ pc[p] = "get"
    /\ \E s \in env.statuses :
       \E n \in (IF s = 200 THEN env.lens ELSE {0}) :
        /\ Retryable(s) => attempts[p] <= env.retries
        /\ r' = [r EXCEPT ![p] = [status |-> s, at |-> clock, len |-> n]]
        /\ statuses' = [statuses EXCEPT ![p] = Append(@, s)]
    /\ pc' = [pc EXCEPT ![p] = "close"]
    /\ UNCHANGED <<clock, cache, storedAt, served, req, now, attempts, backoff, wake,
                   delays, result, ret>>
    /\ UNCHANGED fvars

\* await client.get(...) raises (timeout=20, connection error): no response
TransportError(p) ==
    /\ pc[p] = "get"
    /\ FailFetch(p, "TransportError", 0)
    /\ DropLocals(p)
    /\ UNCHANGED <<clock, served, req>>
    /\ UNCHANGED fvars

\* after the client is closed: the branch on r.status_code
Handle(p) ==
    /\ pc[p] = "close"
    /\ IF Retryable(r[p].status)
       THEN \* await _sleep(backoff)
            /\ pc' = [pc EXCEPT ![p] = "sleep"]
            /\ wake' = [wake EXCEPT ![p] = clock + backoff[p]]
            /\ delays' = [delays EXCEPT ![p] = Append(@, backoff[p])]
            /\ UNCHANGED <<cache, storedAt, result, ret, now, attempts, backoff, r, statuses>>
       ELSE IF r[p].status # 200
       THEN \* r.raise_for_status()
            /\ FailFetch(p, "HTTPStatusError", r[p].status)
            /\ DropLocals(p)
       ELSE LET series == [coin |-> req[p].coin_id, days |-> req[p].days,
                           at |-> r[p].at, last |-> r[p].at \div TicksPerDay,
                           len |-> r[p].len]
            IN  /\ cache' = Put(cache, Key(req[p]),
                                [ts |-> StoreTimestamp(p), series |-> series])
                /\ storedAt' = Put(storedAt, Key(req[p]), clock)
                /\ Finish(p, req[p], series, FALSE)
                /\ DropLocals(p)
    /\ UNCHANGED <<clock, served, req>>
    /\ UNCHANGED fvars

\* the sleep is over: backoff *= 2; continue, into the next attempt or out of
\* the loop to the final r.raise_for_status()
Wake(p) ==
    /\ pc[p] = "sleep"
    /\ clock' = Max(clock, wake[p])
    /\ IF attempts[p] < MaxAttempts
       THEN /\ pc' = [pc EXCEPT ![p] = "get"]
            /\ attempts' = [attempts EXCEPT ![p] = @ + 1]
            /\ backoff' = [backoff EXCEPT ![p] = NextBackoff(@)]
            /\ UNCHANGED <<cache, storedAt, result, ret, now, r, wake, statuses, delays>>
       ELSE /\ FailFetch(p, "HTTPStatusError", r[p].status)
            /\ DropLocals(p)
    /\ UNCHANGED <<served, req>>
    /\ UNCHANGED fvars

\* one handler at a time
Next ==
    \/ Predict("h1", SeqEnv)
    \/ Respond("h1", SeqEnv)
    \/ TransportError("h1")
    \/ Handle("h1")
    \/ Wake("h1")

Spec == Init /\ [][Next]_vars

\* two handlers on the one event loop, switching at every await
NextOverlap ==
    \E p \in Procs :
        \/ Predict(p, OverlapEnv)
        \/ Respond(p, OverlapEnv)
        \/ TransportError(p)
        \/ Handle(p)
        \/ Wake(p)

SpecOverlap == Init /\ [][NextOverlap]_vars

\* ------------------------------------------------- forecast, called directly

InitForecast ==
    /\ ServiceInit
    /\ fpc = "call"
    /\ fin \in [series : [coin : {"bitcoin"}, days : {365}, at : {0},
                          last : FLastDates, len : FLens],
                horizon : Horizons, mode : Modes,
                meanH : ScoreInputs, meanA : ScoreInputs]
    /\ fout = [raised |-> ""]

ForecastCall ==
    /\ fpc = "call"
    /\ fout' = forecast(fin.series, fin.horizon, fin.mode, fin.meanH, fin.meanA)
    /\ fpc' = IF fout'.raised = "" THEN "returned" ELSE "raised"
    /\ UNCHANGED fin
    /\ UNCHANGED svars

NextForecast == ForecastCall

SpecForecast == InitForecast /\ [][NextForecast]_vars


\* ------------------------------------------------------------------ claims

\* handler p takes a new request in this step
Starts(p) == served'[p] = served[p] + 1

\* HTTP 429 or 5xx
Is429or5xx(s) == s = 429 \/ s \in 500 .. 599

\* the request names an unsupported coin, horizon or model
BadRequest(rq) ==
    \/ rq.coin_id \notin COINS
    \/ rq.horizon \notin {7, 14, 30, 60}
    \/ rq.model \notin {"holt", "arima", "best", "ensemble"}

\* the errors of a failed upstream fetch
FetchErrors == {"HTTPStatusError", "TransportError"}

\* the fetch of handler p ends in this step by raising
FetchFails(p) == pc[p] \in InFlight /\ pc'[p] = "failed" /\ result'[p].kind \in FetchErrors

\* 0.5 * 2^(i-1) time-units for i = 1..k, in ticks
ExpectedDelays(k) == [i \in 1 .. k |-> 2 ^ (i - 1)]

\* C1: a call for a key that has an entry is answered from the cache, with no
\* upstream attempt, exactly when less than TTL has passed since the entry
\* was stored; otherwise it makes a new upstream fetch.
C1_HitIffYoungSinceStored ==
    [][\A p \in Procs :
        (Starts(p) /\ ~BadRequest(req'[p]) /\ Key(req'[p]) \in DOMAIN cache) =>
            LET k == Key(req'[p])
            IN  IF clock' - storedAt[k] < TTL_SECONDS * TicksPerSecond
                THEN result'[p].hit /\ ret'[p] = cache[k].series /\ pc'[p] # "get"
                ELSE pc'[p] = "get" /\ attempts'[p] = 1]_vars

\* What the code does instead: the age is counted from the `now` of the call
\* that stored the entry, taken before its fetch.
HitIffYoungSinceCallStart ==
    [][\A p \in Procs :
        (Starts(p) /\ ~BadRequest(req'[p]) /\ Key(req'[p]) \in DOMAIN cache) =>
            LET k == Key(req'[p])
            IN  IF clock' - cache[k].ts < TTL_SECONDS * TicksPerSecond
                THEN result'[p].hit /\ ret'[p] = cache[k].series /\ pc'[p] # "get"
                ELSE pc'[p] = "get" /\ attempts'[p] = 1]_vars

\* C2: a fetch that fails raises to the caller and leaves the cache as it
\* was; the cache is written only by the step that handles a 200 response,
\* holds series only, and a later call for a key with no live entry goes to
\* the upstream again.
C2_FailedFetchLeavesCache ==
    [][/\ \A p \in Procs :
            FetchFails(p) =>
                /\ cache' = cache
                /\ ret'[p] = NoSeries
                /\ pc'[p] = "failed"
       /\ cache' # cache => \E p \in Procs : pc[p] = "close" /\ r[p].status = 200
       /\ \A k \in DOMAIN cache' : cache'[k].series.len > 0
       /\ \A p \in Procs :
            (Starts(p) /\ ~BadRequest(req'[p])
                /\ ~(Key(req'[p]) \in DOMAIN cache
                     /\ clock' - cache[Key(req'[p])].ts < TTL_SECONDS * TicksPerSecond))
            => pc'[p] = "get" /\ attempts'[p] = 1]_vars

\* a fetch failed after its retries while the cache holds an expired entry of
\* its key
C2_Witness ==
    \E p \in Procs :
        /\ pc[p] = "failed"
        /\ result[p].kind = "HTTPStatusError"
        /\ Is429or5xx(result[p].status)
        /\ Key(req[p]) \in DOMAIN cache
        /\ clock - cache[Key(req[p])].ts >= TTL_SECONDS * TicksPerSecond

\* C3: within one fetch a further attempt is made if and only if the previous
\* response was 429 or 5xx and fewer than 4 attempts were made: at most 4
\* attempts, and any other non-success status ends the fetch with an error
\* in the step that sees it, with no retry and no backoff delay.
C3_RetryOnlyOn429or5xx ==
    [][\A p \in Procs :
        /\ attempts'[p] <= 4
        /\ (attempts[p] > 0 /\ attempts'[p] > attempts[p]) =>
                /\ Is429or5xx(r[p].status)
                /\ attempts[p] < 4
                /\ attempts'[p] = attempts[p] + 1
                /\ \A i \in 1 .. Len(statuses[p]) : Is429or5xx(statuses[p][i])
        /\ (pc[p] = "close" /\ pc'[p] # "close" /\ Is429or5xx(r[p].status)
                /\ attempts[p] < 4) => pc'[p] = "sleep"
        /\ (pc[p] = "sleep" /\ pc'[p] # "sleep" /\ attempts[p] < 4) =>
                pc'[p] = "get" /\ attempts'[p] = attempts[p] + 1
        /\ (pc[p] = "close" /\ pc'[p] # "close" /\ ~Is429or5xx(r[p].status)
                /\ r[p].status # 200) =>
                /\ pc'[p] = "failed"
                /\ result'[p].kind = "HTTPStatusError"
                /\ result'[p].status = r[p].status
                /\ clock' = clock
                /\ Len(delays[p]) = attempts[p] - 1]_vars

\* the fourth attempt of a fetch was answered 404 after three retryable
\* responses
C3_Witness ==
    \E p \in Procs :
        /\ pc[p] = "close"
        /\ attempts[p] = 4
        /\ statuses[p] = <<429, 500, 429, 404>>

\* C4: when k retryable responses (0 <= k <= 3) are followed by a 200, the
\* fetch returns a series after exactly k+1 attempts and k backoff delays of
\* 0.5 * 2^(i-1) time-units, all slept before the 200 arrived.
C4_DelaysBeforeSuccess ==
    [][\A p \in Procs :
        (pc[p] = "close" /\ r[p].status = 200 /\ pc'[p] # "close") =>
            LET k == Len(statuses[p]) - 1
            IN  /\ k \in 0 .. 3
                /\ \A i \in 1 .. k : Is429or5xx(statuses[p][i])
                /\ attempts[p] = k + 1
                /\ delays[p] = ExpectedDelays(k)
                /\ r[p].at >= now[p] + Sum(delays[p], 1 .. k)
                /\ ret'[p].len > 0
                /\ ret'[p].at = r[p].at
                /\ result'[p].kind \notin FetchErrors]_vars

\* the responses [429, 429, 200], with delays 0.5 then 1.0
C4_Witness ==
    \E p \in Procs :
        /\ pc[p] = "close"
        /\ statuses[p] = <<429, 429, 200>>
        /\ delays[p] = <<1, 2>>

\* C5: a request with an unsupported coin_id, horizon or model is rejected
\* in the step that takes it: no upstream attempt, no model fit, the cache
\* unchanged.
C5_RejectedBeforeAnyWork ==
    [][\A p \in Procs :
        (Starts(p) /\ BadRequest(req'[p])) =>
            /\ pc'[p] = "rejected"
            /\ result'[p].status = 400
            /\ result'[p].fits = 0
            /\ attempts'[p] = 0
            /\ ret'[p] = NoSeries
            /\ cache' = cache]_vars

\* a request with an unsupported horizon alone was rejected while the cache
\* holds an entry
C5_Witness ==
    \E p \in Procs :
        /\ pc[p] = "rejected"
        /\ req[p].coin_id \in COINS
        /\ req[p].horizon = 10
        /\ req[p].model = "best"
        /\ DOMAIN cache # {}

\* C6: on a series too short for any backtest split, forecast in mode
\* 'best' and in mode 'ensemble' returns a frame and model info instead of
\* raising.
C6_ShortSeriesStillForecasts ==
    (/\ fpc # "call"
     /\ fin.mode \in {"best", "ensemble"}
     /\ LET n == Min(fin.series.len, 720)
        IN  n - fin.horizon <= Min(300, Max(120, n \div 2)))
    => fpc = "returned" /\ fout.raised = ""

\* C7: best_model returns 'arima' only on a strictly lower arima score and
\* 'holt' otherwise (equal scores and two infinite scores included), with
\* both scores, and 'best' mode builds the frame with the chosen adapter.
C7_BestPrefersHoltOnTies ==
    (fpc = "returned" /\ fin.mode = "best") =>
        LET s == [fin.series EXCEPT !.len = Min(fin.series.len, 720)]
            split == Cuts(s.len, fin.horizon, StartDays(s.len)) # {}
            sH == IF split THEN fin.meanH ELSE Inf
            sA == IF split THEN fin.meanA ELSE Inf
        IN  /\ fout.info.holt = sH
            /\ fout.info.arima = sA
            /\ fout.info.model = (IF sA # Inf /\ (sH = Inf \/ sA < sH) THEN "arima" ELSE "holt")
            /\ fout.fc.by = fout.info.model

\* 'best' mode returned on two equal finite scores
C7_Witness ==
    /\ fpc = "returned"
    /\ fin.mode = "best"
    /\ fout.info.holt # Inf
    /\ fout.info.holt = fout.info.arima
    /\ fout.info.model = "holt"

\* C8: the frame forecast returns has exactly `horizon` rows, dated
\* last_date+1 .. last_date+horizon, last_date being the last date of the
\* input series.
C8_FrameFollowsLastDate ==
    fpc = "returned" =>
        /\ Len(fout.fc.index) = fin.horizon
        /\ \A i \in 1 .. fin.horizon : fout.fc.index[i] = fin.series.last + i

\* an ensemble frame of 60 rows from a series longer than the 720 window
C8_Witness ==
    /\ fpc = "returned"
    /\ fin.mode = "ensemble"
    /\ fin.horizon = 60
    /\ fin.series.len > 720
    /\ Len(fout.fc.index) = 60

\* C9: when all 4 attempts get a retryable status the fetch has exactly the
\* 3 backoff delays 0.5, 1.0, 2.0, and every backoff delay is followed by
\* another attempt.
C9_ThreeDelaysWhenExhausted ==
    \A p \in Procs :
        /\ pc[p] = "sleep" => attempts[p] < 4
        /\ (Len(statuses[p]) = 4 /\ \A i \in 1 .. 4 : Is429or5xx(statuses[p][i]))
                => delays[p] = <<1, 2, 4>>

\* C10: under every interleaving, every cache entry holds a series fetched
\* for its own key with a timestamp not later than the moment the series was
\* retrieved, and a call answered from the cache returns a series of its key
\* retrieved less than TTL before the call started.
C10_EntriesNeverPostdated ==
    [][/\ \A k \in DOMAIN cache' :
            /\ cache'[k].series.coin = k[1]
            /\ cache'[k].series.days = k[2]
            /\ cache'[k].series.len > 0
            /\ cache'[k].ts <= cache'[k].series.at
       /\ \A p \in Procs :
            (Starts(p) /\ result'[p].hit) =>
                /\ ret'[p].coin = req'[p].coin_id
                /\ ret'[p].days = req'[p].days
                /\ clock' - ret'[p].at < TTL_SECONDS * TicksPerSecond]_vars

\* a call was answered from an entry stamped before its series was retrieved,
\* while another handler's fetch is in flight
C10_Witness ==
    \E p \in Procs, q \in Procs :
        /\ pc[p] = "done"
        /\ result[p].hit
        /\ cache[Key(req[p])].ts < ret[p].at
        /\ pc[q] \in InFlight

=============================================================================
